---- MODULE Spec2Model ----
(***************************************************************************)
(* LC-2K toolchain: the two-pass assembler of asemble.py (parse_lines,     *)
(* build_symbol_table, encode, main) and the simulator of simulate.py      *)
(* (load_mc, step and the eight handlers).  The assembler writes the       *)
(* machine-code file the simulator loads.                                  *)
(*                                                                         *)
(* A 32-bit word is the pair <<hi, lo>> of its two 16-bit halves, the      *)
(* unsigned value being hi * 65536 + lo: every register and memory cell of *)
(* the program is kept "& MASK_32", and the pair keeps that width exactly. *)
(* Text (a token, a line of the machine-code file) is a sequence of        *)
(* characters, each a string of its own: the character itself where a      *)
(* string of the module can hold and show it ("a", "5", " ", "\t"), and    *)
(* otherwise its code point, as "U+0663" for ARABIC-INDIC DIGIT THREE:     *)
(* both programs read their files as UTF-8.                                *)
(***************************************************************************)
EXTENDS Integers, Sequences, FiniteSets, TLC

VARIABLES
    input,      \* the source file: "text", "absent", or "undecodable" (bytes that
                \* are no UTF-8)
    src,        \* the assembly source text: a sequence of raw lines
    stdout,     \* the encoding of asemble.py's standard output: "utf-8" or "ascii"
    asm,        \* asemble.py's run: "None" (not run), "Start", "Done" (exit status
                \* 0), "Usage" (parser.error, exit status 2), "Failed" (AsmError,
                \* caught and printed, exit status 1), "Crashed" (an exception
                \* nothing catches, before the output is written, exit status
                \* 1), "Unreported" (the output written, then print raised
                \* UnicodeEncodeError, exit status 1)
    asmErr,     \* the exception the run ended with, or NoErr
    words,      \* main's words: the list encode returned
    encArgs,    \* one iteration of encode's loop: [pcx, line, symbols], or NoArgs
    encRes,     \* what that iteration appended or raised, or NoRes
    mcfile,     \* the machine-code file: a sequence of text lines, NoFile, or
                \* Undecodable
    status,     \* simulate.py's run: "Start", "Running", "Halted", "Aborted",
                \* "Rejected" (program too big), "Crashed" (an exception in
                \* load_mc: no file, no UTF-8, no integer), "Faulted"
                \* (IndexError in a handler)
    mem,        \* State.mem: the cells loaded or written; every other address reads 0
    reg,        \* State.reg
    pc,         \* State.pc
    steps,      \* State.steps
    exitCode,   \* the argument of sys.exit, -1 while the process runs
    reported    \* the count printed as "instructions executed", -1 before

asmVars == <<input, src, stdout, asm, asmErr, words>>
encVars == <<encArgs, encRes>>
simVars == <<status, mem, reg, pc, steps, exitCode, reported>>
vars == <<input, src, stdout, asm, asmErr, words, encArgs, encRes, mcfile,
          status, mem, reg, pc, steps, exitCode, reported>>

\* ------------------------------------------------------------ constants
MEM_SIZE == 65536
STEP_LIMIT == 1000000

OP_ADD == 0
OP_NAND == 1
OP_LW == 2
OP_SW == 3
OP_BEQ == 4
OP_JALR == 5
OP_HALT == 6
OP_NOOP == 7

NoFile == [present |-> FALSE, decodable |-> FALSE, lines |-> <<>>]

\* a file whose bytes are no UTF-8
Undecodable == [present |-> TRUE, decodable |-> FALSE, lines |-> <<>>]

FileWith(ls) == [present |-> TRUE, decodable |-> TRUE, lines |-> ls]

\* ------------------------------------------------------------ text
Digits == <<"0", "1", "2", "3", "4", "5", "6", "7", "8", "9">>

\* the characters 0..9
IsAsciiDigit(c) == \E d \in 1..10 : Digits[d] = c

\* The decimal digits of the other scripts (Unicode 14.0, the tables of the
\* str and int of Python 3.11): each row is the digits 0..9 of one script.
\* str.isdigit() and int() take them as they take 0..9.
OtherDecimals ==
    {<<"U+0660", "U+0661", "U+0662", "U+0663", "U+0664",
       "U+0665", "U+0666", "U+0667", "U+0668", "U+0669">>,
     <<"U+06F0", "U+06F1", "U+06F2", "U+06F3", "U+06F4",
       "U+06F5", "U+06F6", "U+06F7", "U+06F8", "U+06F9">>,
     <<"U+07C0", "U+07C1", "U+07C2", "U+07C3", "U+07C4",
       "U+07C5", "U+07C6", "U+07C7", "U+07C8", "U+07C9">>,
     <<"U+0966", "U+0967", "U+0968", "U+0969", "U+096A",
       "U+096B", "U+096C", "U+096D", "U+096E", "U+096F">>,
     <<"U+09E6", "U+09E7", "U+09E8", "U+09E9", "U+09EA",
       "U+09EB", "U+09EC", "U+09ED", "U+09EE", "U+09EF">>,
     <<"U+0A66", "U+0A67", "U+0A68", "U+0A69", "U+0A6A",
       "U+0A6B", "U+0A6C", "U+0A6D", "U+0A6E", "U+0A6F">>,
     <<"U+0AE6", "U+0AE7", "U+0AE8", "U+0AE9", "U+0AEA",
       "U+0AEB", "U+0AEC", "U+0AED", "U+0AEE", "U+0AEF">>,
     <<"U+0B66", "U+0B67", "U+0B68", "U+0B69", "U+0B6A",
       "U+0B6B", "U+0B6C", "U+0B6D", "U+0B6E", "U+0B6F">>,
     <<"U+0BE6", "U+0BE7", "U+0BE8", "U+0BE9", "U+0BEA",
       "U+0BEB", "U+0BEC", "U+0BED", "U+0BEE", "U+0BEF">>,
     <<"U+0C66", "U+0C67", "U+0C68", "U+0C69", "U+0C6A",
       "U+0C6B", "U+0C6C", "U+0C6D", "U+0C6E", "U+0C6F">>,
     <<"U+0CE6", "U+0CE7", "U+0CE8", "U+0CE9", "U+0CEA",
       "U+0CEB", "U+0CEC", "U+0CED", "U+0CEE", "U+0CEF">>,
     <<"U+0D66", "U+0D67", "U+0D68", "U+0D69", "U+0D6A",
       "U+0D6B", "U+0D6C", "U+0D6D", "U+0D6E", "U+0D6F">>,
     <<"U+0DE6", "U+0DE7", "U+0DE8", "U+0DE9", "U+0DEA",
       "U+0DEB", "U+0DEC", "U+0DED", "U+0DEE", "U+0DEF">>,
     <<"U+0E50", "U+0E51", "U+0E52", "U+0E53", "U+0E54",
       "U+0E55", "U+0E56", "U+0E57", "U+0E58", "U+0E59">>,
     <<"U+0ED0", "U+0ED1", "U+0ED2", "U+0ED3", "U+0ED4",
       "U+0ED5", "U+0ED6", "U+0ED7", "U+0ED8", "U+0ED9">>,
     <<"U+0F20", "U+0F21", "U+0F22", "U+0F23", "U+0F24",
       "U+0F25", "U+0F26", "U+0F27", "U+0F28", "U+0F29">>,
     <<"U+1040", "U+1041", "U+1042", "U+1043", "U+1044",
       "U+1045", "U+1046", "U+1047", "U+1048", "U+1049">>,
     <<"U+1090", "U+1091", "U+1092", "U+1093", "U+1094",
       "U+1095", "U+1096", "U+1097", "U+1098", "U+1099">>,
     <<"U+17E0", "U+17E1", "U+17E2", "U+17E3", "U+17E4",
       "U+17E5", "U+17E6", "U+17E7", "U+17E8", "U+17E9">>,
     <<"U+1810", "U+1811", "U+1812", "U+1813", "U+1814",
       "U+1815", "U+1816", "U+1817", "U+1818", "U+1819">>,
     <<"U+1946", "U+1947", "U+1948", "U+1949", "U+194A",
       "U+194B", "U+194C", "U+194D", "U+194E", "U+194F">>,
     <<"U+19D0", "U+19D1", "U+19D2", "U+19D3", "U+19D4",
       "U+19D5", "U+19D6", "U+19D7", "U+19D8", "U+19D9">>,
     <<"U+1A80", "U+1A81", "U+1A82", "U+1A83", "U+1A84",
       "U+1A85", "U+1A86", "U+1A87", "U+1A88", "U+1A89">>,
     <<"U+1A90", "U+1A91", "U+1A92", "U+1A93", "U+1A94",
       "U+1A95", "U+1A96", "U+1A97", "U+1A98", "U+1A99">>,
     <<"U+1B50", "U+1B51", "U+1B52", "U+1B53", "U+1B54",
       "U+1B55", "U+1B56", "U+1B57", "U+1B58", "U+1B59">>,
     <<"U+1BB0", "U+1BB1", "U+1BB2", "U+1BB3", "U+1BB4",
       "U+1BB5", "U+1BB6", "U+1BB7", "U+1BB8", "U+1BB9">>,
     <<"U+1C40", "U+1C41", "U+1C42", "U+1C43", "U+1C44",
       "U+1C45", "U+1C46", "U+1C47", "U+1C48", "U+1C49">>,
     <<"U+1C50", "U+1C51", "U+1C52", "U+1C53", "U+1C54",
       "U+1C55", "U+1C56", "U+1C57", "U+1C58", "U+1C59">>,
     <<"U+A620", "U+A621", "U+A622", "U+A623", "U+A624",
       "U+A625", "U+A626", "U+A627", "U+A628", "U+A629">>,
     <<"U+A8D0", "U+A8D1", "U+A8D2", "U+A8D3", "U+A8D4",
       "U+A8D5", "U+A8D6", "U+A8D7", "U+A8D8", "U+A8D9">>,
     <<"U+A900", "U+A901", "U+A902", "U+A903", "U+A904",
       "U+A905", "U+A906", "U+A907", "U+A908", "U+A909">>,
     <<"U+A9D0", "U+A9D1", "U+A9D2", "U+A9D3", "U+A9D4",
       "U+A9D5", "U+A9D6", "U+A9D7", "U+A9D8", "U+A9D9">>,
     <<"U+A9F0", "U+A9F1", "U+A9F2", "U+A9F3", "U+A9F4",
       "U+A9F5", "U+A9F6", "U+A9F7", "U+A9F8", "U+A9F9">>,
     <<"U+AA50", "U+AA51", "U+AA52", "U+AA53", "U+AA54",
       "U+AA55", "U+AA56", "U+AA57", "U+AA58", "U+AA59">>,
     <<"U+ABF0", "U+ABF1", "U+ABF2", "U+ABF3", "U+ABF4",
       "U+ABF5", "U+ABF6", "U+ABF7", "U+ABF8", "U+ABF9">>,
     <<"U+FF10", "U+FF11", "U+FF12", "U+FF13", "U+FF14",
       "U+FF15", "U+FF16", "U+FF17", "U+FF18", "U+FF19">>,
     <<"U+104A0", "U+104A1", "U+104A2", "U+104A3", "U+104A4",
       "U+104A5", "U+104A6", "U+104A7", "U+104A8", "U+104A9">>,
     <<"U+10D30", "U+10D31", "U+10D32", "U+10D33", "U+10D34",
       "U+10D35", "U+10D36", "U+10D37", "U+10D38", "U+10D39">>,
     <<"U+11066", "U+11067", "U+11068", "U+11069", "U+1106A",
       "U+1106B", "U+1106C", "U+1106D", "U+1106E", "U+1106F">>,
     <<"U+110F0", "U+110F1", "U+110F2", "U+110F3", "U+110F4",
       "U+110F5", "U+110F6", "U+110F7", "U+110F8", "U+110F9">>,
     <<"U+11136", "U+11137", "U+11138", "U+11139", "U+1113A",
       "U+1113B", "U+1113C", "U+1113D", "U+1113E", "U+1113F">>,
     <<"U+111D0", "U+111D1", "U+111D2", "U+111D3", "U+111D4",
       "U+111D5", "U+111D6", "U+111D7", "U+111D8", "U+111D9">>,
     <<"U+112F0", "U+112F1", "U+112F2", "U+112F3", "U+112F4",
       "U+112F5", "U+112F6", "U+112F7", "U+112F8", "U+112F9">>,
     <<"U+11450", "U+11451", "U+11452", "U+11453", "U+11454",
       "U+11455", "U+11456", "U+11457", "U+11458", "U+11459">>,
     <<"U+114D0", "U+114D1", "U+114D2", "U+114D3", "U+114D4",
       "U+114D5", "U+114D6", "U+114D7", "U+114D8", "U+114D9">>,
     <<"U+11650", "U+11651", "U+11652", "U+11653", "U+11654",
       "U+11655", "U+11656", "U+11657", "U+11658", "U+11659">>,
     <<"U+116C0", "U+116C1", "U+116C2", "U+116C3", "U+116C4",
       "U+116C5", "U+116C6", "U+116C7", "U+116C8", "U+116C9">>,
     <<"U+11730", "U+11731", "U+11732", "U+11733", "U+11734",
       "U+11735", "U+11736", "U+11737", "U+11738", "U+11739">>,
     <<"U+118E0", "U+118E1", "U+118E2", "U+118E3", "U+118E4",
       "U+118E5", "U+118E6", "U+118E7", "U+118E8", "U+118E9">>,
     <<"U+11950", "U+11951", "U+11952", "U+11953", "U+11954",
       "U+11955", "U+11956", "U+11957", "U+11958", "U+11959">>,
     <<"U+11C50", "U+11C51", "U+11C52", "U+11C53", "U+11C54",
       "U+11C55", "U+11C56", "U+11C57", "U+11C58", "U+11C59">>,
     <<"U+11D50", "U+11D51", "U+11D52", "U+11D53", "U+11D54",
       "U+11D55", "U+11D56", "U+11D57", "U+11D58", "U+11D59">>,
     <<"U+11DA0", "U+11DA1", "U+11DA2", "U+11DA3", "U+11DA4",
       "U+11DA5", "U+11DA6", "U+11DA7", "U+11DA8", "U+11DA9">>,
     <<"U+16A60", "U+16A61", "U+16A62", "U+16A63", "U+16A64",
       "U+16A65", "U+16A66", "U+16A67", "U+16A68", "U+16A69">>,
     <<"U+16AC0", "U+16AC1", "U+16AC2", "U+16AC3", "U+16AC4",
       "U+16AC5", "U+16AC6", "U+16AC7", "U+16AC8", "U+16AC9">>,
     <<"U+16B50", "U+16B51", "U+16B52", "U+16B53", "U+16B54",
       "U+16B55", "U+16B56", "U+16B57", "U+16B58", "U+16B59">>,
     <<"U+1D7CE", "U+1D7CF", "U+1D7D0", "U+1D7D1", "U+1D7D2",
       "U+1D7D3", "U+1D7D4", "U+1D7D5", "U+1D7D6", "U+1D7D7">>,
     <<"U+1D7D8", "U+1D7D9", "U+1D7DA", "U+1D7DB", "U+1D7DC",
       "U+1D7DD", "U+1D7DE", "U+1D7DF", "U+1D7E0", "U+1D7E1">>,
     <<"U+1D7E2", "U+1D7E3", "U+1D7E4", "U+1D7E5", "U+1D7E6",
       "U+1D7E7", "U+1D7E8", "U+1D7E9", "U+1D7EA", "U+1D7EB">>,
     <<"U+1D7EC", "U+1D7ED", "U+1D7EE", "U+1D7EF", "U+1D7F0",
       "U+1D7F1", "U+1D7F2", "U+1D7F3", "U+1D7F4", "U+1D7F5">>,
     <<"U+1D7F6", "U+1D7F7", "U+1D7F8", "U+1D7F9", "U+1D7FA",
       "U+1D7FB", "U+1D7FC", "U+1D7FD", "U+1D7FE", "U+1D7FF">>,
     <<"U+1E140", "U+1E141", "U+1E142", "U+1E143", "U+1E144",
       "U+1E145", "U+1E146", "U+1E147", "U+1E148", "U+1E149">>,
     <<"U+1E2F0", "U+1E2F1", "U+1E2F2", "U+1E2F3", "U+1E2F4",
       "U+1E2F5", "U+1E2F6", "U+1E2F7", "U+1E2F8", "U+1E2F9">>,
     <<"U+1E950", "U+1E951", "U+1E952", "U+1E953", "U+1E954",
       "U+1E955", "U+1E956", "U+1E957", "U+1E958", "U+1E959">>,
     <<"U+1FBF0", "U+1FBF1", "U+1FBF2", "U+1FBF3", "U+1FBF4",
       "U+1FBF5", "U+1FBF6", "U+1FBF7", "U+1FBF8", "U+1FBF9">>}

OtherDecimalChars == UNION {{row[d] : d \in 1..10} : row \in OtherDecimals}

\* a decimal digit of any script
IsDecimal(c) == IsAsciiDigit(c) \/ c \in OtherDecimalChars

\* the value of a decimal digit
DigitVal(c) ==
    IF IsAsciiDigit(c) THEN (CHOOSE i \in 1..10 : Digits[i] = c) - 1
    ELSE (CHOOSE d \in 1..10 : \E row \in OtherDecimals : row[d] = c) - 1

\* The characters that are digits to str.isdigit() and are no decimal digits
\* to int(): superscripts, subscripts, circled and other ornamental digits.
DigitsNotDecimal ==
    {"²", "³", "¹", "U+1369", "U+136A", "U+136B", "U+136C",
     "U+136D", "U+136E", "U+136F", "U+1370", "U+1371", "U+19DA", "U+2070",
     "U+2074", "U+2075", "U+2076", "U+2077", "U+2078", "U+2079", "U+2080",
     "U+2081", "U+2082", "U+2083", "U+2084", "U+2085", "U+2086", "U+2087",
     "U+2088", "U+2089", "U+2460", "U+2461", "U+2462", "U+2463", "U+2464",
     "U+2465", "U+2466", "U+2467", "U+2468", "U+2474", "U+2475", "U+2476",
     "U+2477", "U+2478", "U+2479", "U+247A", "U+247B", "U+247C", "U+2488",
     "U+2489", "U+248A", "U+248B", "U+248C", "U+248D", "U+248E", "U+248F",
     "U+2490", "U+24EA", "U+24F5", "U+24F6", "U+24F7", "U+24F8", "U+24F9",
     "U+24FA", "U+24FB", "U+24FC", "U+24FD", "U+24FF", "U+2776", "U+2777",
     "U+2778", "U+2779", "U+277A", "U+277B", "U+277C", "U+277D", "U+277E",
     "U+2780", "U+2781", "U+2782", "U+2783", "U+2784", "U+2785", "U+2786",
     "U+2787", "U+2788", "U+278A", "U+278B", "U+278C", "U+278D", "U+278E",
     "U+278F", "U+2790", "U+2791", "U+2792", "U+10A40", "U+10A41", "U+10A42",
     "U+10A43", "U+10E60", "U+10E61", "U+10E62", "U+10E63", "U+10E64", "U+10E65",
     "U+10E66", "U+10E67", "U+10E68", "U+11052", "U+11053", "U+11054", "U+11055",
     "U+11056", "U+11057", "U+11058", "U+11059", "U+1105A", "U+1F100", "U+1F101",
     "U+1F102", "U+1F103", "U+1F104", "U+1F105", "U+1F106", "U+1F107", "U+1F108",
     "U+1F109", "U+1F10A"}

\* str.isdigit(): non-empty, and every character is a digit, decimal or not
isdigit(t) ==
    Len(t) > 0 /\ \A i \in 1..Len(t) : IsDecimal(t[i]) \/ t[i] \in DigitsNotDecimal

\* The white space int() drops from both ends of its text
Whitespace ==
    {"\t", "\n", "U+000B", "\f", "\r", " ", "U+0085",
     "U+00A0", "U+1680", "U+2000", "U+2001", "U+2002", "U+2003", "U+2004",
     "U+2005", "U+2006", "U+2007", "U+2008", "U+2009", "U+200A", "U+2028",
     "U+2029", "U+202F", "U+205F", "U+3000"}

RECURSIVE lstrip(_)
lstrip(t) == IF Len(t) > 0 /\ t[1] \in Whitespace THEN lstrip(Tail(t)) ELSE t

RECURSIVE rstrip(_)
rstrip(t) == IF Len(t) > 0 /\ t[Len(t)] \in Whitespace
             THEN rstrip(SubSeq(t, 1, Len(t) - 1)) ELSE t

strip(t) == rstrip(lstrip(t))

\* the digits of t, its underscores skipped, as a number
RECURSIVE NatOf(_)
NatOf(t) == IF Len(t) = 0 THEN 0
            ELSE IF t[Len(t)] = "_" THEN NatOf(SubSeq(t, 1, Len(t) - 1))
            ELSE 10 * NatOf(SubSeq(t, 1, Len(t) - 1)) + DigitVal(t[Len(t)])

\* t without its sign
Unsigned(t) == IF Len(t) > 0 /\ t[1] \in {"-", "+"} THEN Tail(t) ELSE t

\* sys.get_int_max_str_digits(): the most digits int() converts
MAX_STR_DIGITS == 4300

\* how many positions come before the first of S, of n when S is empty
Before(S, n) == IF S = {} THEN n
                ELSE (CHOOSE i \in S : \A j \in S : i <= j) - 1

\* The length of the run of digits and underscores body starts with: int()
\* scans it before it converts
DigitRun(body) ==
    Before({i \in 1..Len(body) : ~(IsDecimal(body[i]) \/ body[i] = "_")},
           Len(body))

\* the digits among the first k characters
DigitCount(body, k) == Cardinality({i \in 1..k : body[i] # "_"})

\* The scan of the first k characters finds no fault: no underscore at the
\* start, none at the end, no two together
RunScans(body, k) ==
    /\ k > 0 => body[1] # "_" /\ body[k] # "_"
    /\ \A i \in 1..(k - 1) : ~(body[i] = "_" /\ body[i + 1] = "_")

\* decimal digits with single underscores between them, MAX_STR_DIGITS digits
\* at most
IsSignedDigits(body) ==
    /\ Len(body) > 0
    /\ DigitRun(body) = Len(body)
    /\ RunScans(body, Len(body))
    /\ DigitCount(body, Len(body)) <= MAX_STR_DIGITS

\* The texts int() converts: white space, an optional sign, decimal digits
\* with single underscores between them, white space
IsIntLiteral(t) == IsSignedDigits(Unsigned(strip(t)))

\* The scan passed more than MAX_STR_DIGITS digits: int() raises before it
\* converts and before it looks at what follows the run
OverRun(body, k) ==
    /\ RunScans(body, k)
    /\ DigitCount(body, k) > MAX_STR_DIGITS

OverDigits(body) == OverRun(body, DigitRun(body))

ExceedsLimit(t) == OverDigits(Unsigned(strip(t)))

\* body from its first digit other than zero on
Significant(body) ==
    SubSeq(body,
           Before({i \in 1..Len(body) :
                       body[i] # "_" /\ DigitVal(body[i]) # 0}, Len(body)) + 1,
           Len(body))

\* -1 for a text with a minus sign, 1 for any other
SignOf(t) == IF Len(t) > 0 /\ t[1] = "-" THEN 0 - 1 ELSE 1

SignedOf(t) == SignOf(t) * NatOf(Significant(Unsigned(t)))

\* the value of int(t) for a text it converts
IntOf(t) == SignedOf(strip(t))

RECURSIVE NatStr(_)
NatStr(n) == IF n < 10 THEN <<Digits[n + 1]>>
             ELSE NatStr(n \div 10) \o <<Digits[(n % 10) + 1]>>

\* str(n)
Str(n) == IF n < 0 THEN <<"-">> \o NatStr(0 - n) ELSE NatStr(n)

\* ------------------------------------------------------------ tokens
T_add == <<"a", "d", "d">>
T_nand == <<"n", "a", "n", "d">>
T_lw == <<"l", "w">>
T_sw == <<"s", "w">>
T_beq == <<"b", "e", "q">>
T_jalr == <<"j", "a", "l", "r">>
T_halt == <<"h", "a", "l", "t">>
T_noop == <<"n", "o", "o", "p">>
T_fill == <<".", "f", "i", "l", "l">>

OPCODES == (T_add :> 0) @@ (T_nand :> 1) @@ (T_lw :> 2) @@ (T_sw :> 3)
           @@ (T_beq :> 4) @@ (T_jalr :> 5) @@ (T_halt :> 6) @@ (T_noop :> 7)

Letters == {"a", "b", "c", "d", "e", "f", "g", "h", "i", "j", "k", "l", "m",
            "n", "o", "p", "q", "r", "s", "t", "u", "v", "w", "x", "y", "z",
            "A", "B", "C", "D", "E", "F", "G", "H", "I", "J", "K", "L", "M",
            "N", "O", "P", "Q", "R", "S", "T", "U", "V", "W", "X", "Y", "Z"}

\* LABEL_RE.match(t): ^[A-Za-z][A-Za-z0-9]{0,5}$
LABEL_RE(t) ==
    /\ Len(t) >= 1
    /\ Len(t) <= 6
    /\ t[1] \in Letters
    /\ \A i \in 2..Len(t) : t[i] \in Letters \/ IsAsciiDigit(t[i])

\* ------------------------------------------------------------ errors
\* AsmError(lineno, msg, line): the message is "Line {lineno + 1}: {msg}" and
\* the stripped source line, which is empty when the raiser passes none.
AsmError(lineno, msg, raw) ==
    [exc |-> "AsmError", line |-> lineno + 1, msg |-> msg, text |-> raw]

NoText == <<>>

\* The ValueError of int(): "invalid literal for int() with base 10", with the
\* text int() was given.  It carries no line number.
ValueError(t) ==
    [exc |-> "ValueError", line |-> 0,
     msg |-> "invalid literal for int() with base 10", text |-> t]

\* The ValueError of int() on more than MAX_STR_DIGITS digits: "Exceeds the
\* limit (4300 digits) for integer string conversion: value has N digits"
\* (the record's text is N)
LimitError(n) ==
    [exc |-> "ValueError", line |-> 0,
     msg |-> "Exceeds the limit (4300 digits) for integer string conversion",
     text |-> Str(n)]

Raise(e) == [ok |-> FALSE, err |-> e]

Return(v) == [ok |-> TRUE, val |-> v]

\* the digits int() counted in body
ScannedDigits(body) == DigitCount(body, DigitRun(body))

\* int(t)
int(t) == IF IsIntLiteral(t) THEN Return(IntOf(t))
          ELSE IF ExceedsLimit(t)
          THEN Raise(LimitError(ScannedDigits(Unsigned(strip(t)))))
          ELSE Raise(ValueError(t))

\* ------------------------------------------------------------ pass 1
\* A raw source line is the sequence of its runs of characters other than
\* white space.  raw.split('#', 1)[0] ends the code at the first '#' of the
\* line, wherever it stands in its run, and TOKEN_RE.findall gives the runs of
\* the code: the runs before the one with the '#', and what that run has
\* before the '#' when it has anything.
HasHash(t) == \E j \in 1..Len(t) : t[j] = "#"

BeforeHash(t) ==
    SubSeq(t, 1, (CHOOSE j \in 1..Len(t) :
                    t[j] = "#" /\ \A k \in 1..(j - 1) : t[k] # "#") - 1)

Tokens(raw) ==
    LET cut == {i \in 1..Len(raw) : HasHash(raw[i])}
    IN  IF cut = {} THEN raw
        ELSE LET first == CHOOSE i \in cut : \A j \in cut : i <= j
                 head  == BeforeHash(raw[first])
             IN  SubSeq(raw, 1, first - 1)
                     \o (IF Len(head) = 0 THEN <<>> ELSE <<head>>)

NoLabel == <<>>

\* The body of parse_lines' loop for a line that is not blank, from its tokens on
parse_tokens(idx, raw, tokens) ==
    LET isLabel == /\ LABEL_RE(tokens[1])
                   /\ tokens[1] \notin DOMAIN OPCODES
                   /\ tokens[1] # T_fill
        op_idx == IF isLabel THEN 1 ELSE 0
    IN  IF op_idx >= Len(tokens)
        THEN Raise(AsmError(idx, "Missing opcode", raw))
        ELSE Return([lineno |-> idx,
                     label  |-> IF isLabel THEN tokens[1] ELSE NoLabel,
                     opcode |-> tokens[op_idx + 1],
                     args   |-> SubSeq(tokens, op_idx + 2, Len(tokens)),
                     raw    |-> raw])

\* The body of parse_lines' loop for a line that is not blank.
parse_line(idx, raw) == parse_tokens(idx, raw, Tokens(raw))

RECURSIVE parse_from(_, _, _)
parse_from(text, idx, lines) ==
    IF idx >= Len(text) THEN Return(lines)
    ELSE LET raw == text[idx + 1]
         IN  IF Len(Tokens(raw)) = 0
             THEN parse_from(text, idx + 1, lines)
             ELSE LET r == parse_line(idx, raw)
                  IN  IF r.ok THEN parse_from(text, idx + 1, Append(lines, r.val))
                      ELSE r

parse_lines(text) == parse_from(text, 0, <<>>)

NoSymbols == <<>>

\* the label given the number of its source line instead of its index among
\* the parsed lines
RECURSIVE symbols_from_lineno(_, _, _)
symbols_from_lineno(lines, pcx, symbols) ==
    IF pcx >= Len(lines) THEN Return(symbols)
    ELSE LET line == lines[pcx + 1]
         IN  IF line.label # NoLabel
             THEN IF line.label \in DOMAIN symbols
                  THEN Raise(AsmError(line.lineno, "Duplicate label", line.raw))
                  ELSE symbols_from_lineno(lines, pcx + 1,
                                           (line.label :> line.lineno) @@ symbols)
             ELSE symbols_from_lineno(lines, pcx + 1, symbols)

\* a label defined again takes the later address
RECURSIVE symbols_from_overwriting(_, _, _)
symbols_from_overwriting(lines, pcx, symbols) ==
    IF pcx >= Len(lines) THEN Return(symbols)
    ELSE LET line == lines[pcx + 1]
         IN  IF line.label # NoLabel
             THEN symbols_from_overwriting(lines, pcx + 1,
                      (line.label :> pcx) @@ symbols)
             ELSE symbols_from_overwriting(lines, pcx + 1, symbols)

\* build_symbol_table's loop from index pcx on: "for pc, line in enumerate(lines)"
RECURSIVE symbols_from(_, _, _)
symbols_from(lines, pcx, symbols) ==
    IF pcx >= Len(lines) THEN Return(symbols)
    ELSE LET line == lines[pcx + 1]
         IN  IF line.label # NoLabel
             THEN IF line.label \in DOMAIN symbols
                  THEN Raise(AsmError(line.lineno, "Duplicate label", line.raw))
                  ELSE symbols_from(lines, pcx + 1, (line.label :> pcx) @@ symbols)
             ELSE symbols_from(lines, pcx + 1, symbols)

build_symbol_table(lines) == symbols_from(lines, 0, NoSymbols)

\* ------------------------------------------------------------ pass 2
\* token.isdigit() or (token.startswith("-") and token[1:].isdigit())
IsLiteral(token) ==
    \/ isdigit(token)
    \/ (Len(token) > 0 /\ token[1] = "-" /\ isdigit(Tail(token)))

\* A token that passes the test goes to int(), which raises ValueError on a
\* digit that is not decimal
resolve_value(token, symbols, allow_label) ==
    IF IsLiteral(token) THEN int(token)
    ELSE IF allow_label /\ token \in DOMAIN symbols THEN Return(symbols[token])
    ELSE Raise(AsmError(-1, "Undefined symbol", NoText))

check_argc(line, expected) ==
    IF Len(line.args) # expected
    THEN Raise(AsmError(line.lineno, "Expected arguments", line.raw))
    ELSE Return(TRUE)

\* if not (0 <= reg < 8): raise AsmError, for reg the result of int(token)
reg_in_range(r) ==
    IF ~r.ok THEN r
    ELSE IF ~(0 <= r.val /\ r.val < 8)
    THEN Raise(AsmError(-1, "Register id out of range", NoText))
    ELSE r

int_reg(token) ==
    IF ~isdigit(token)
    THEN Raise(AsmError(-1, "Register id must be numeric", NoText))
    ELSE reg_in_range(int(token))

MAX_16 == 65536

\* the upper end let in
InRange16_inclusive(offset) == (0 - (MAX_16 \div 2)) <= offset /\ offset <= (MAX_16 \div 2)

\* -MAX_16 // 2 <= offset < MAX_16 // 2
InRange16(offset) == (0 - (MAX_16 \div 2)) <= offset /\ offset < (MAX_16 \div 2)

\* regA and regB in each other's place
Pack_swapped(opc, rA, rB, low) == opc * 4194304 + rB * 524288 + rA * 65536 + low

\* opcode<<22 | rA<<19 | rB<<16 | low: the fields do not overlap, and the word
\* is below 2^25, which "& MASK_32" leaves as it is
Pack(opc, rA, rB, low) == opc * 4194304 + rA * 524288 + rB * 65536 + low

\* map(int_reg, args): the first token that fails raises
RECURSIVE map_int_reg(_)
map_int_reg(args) ==
    IF Len(args) = 0 THEN Return(<<>>)
    ELSE LET r == int_reg(args[1])
         IN  IF ~r.ok THEN r
             ELSE LET rs == map_int_reg(Tail(args))
                  IN  IF ~rs.ok THEN rs ELSE Return(<<r.val>> \o rs.val)

\* The value .fill hands to code.append
fill_value(token, symbols) == resolve_value(token, symbols, FALSE)

\* the label's absolute address, as lw and sw take it
beq_offset_abs(pcx, token, symbols) ==
    IF token \in DOMAIN symbols THEN Return(symbols[token])
    ELSE resolve_value(token, symbols, FALSE)

\* beq's third operand: a label gives target - (pc + 1)
beq_offset(pcx, token, symbols) ==
    IF token \in DOMAIN symbols THEN Return(symbols[token] - (pcx + 1))
    ELSE resolve_value(token, symbols, FALSE)

\* the label's displacement from the next instruction, as beq takes it
mem_offset_relative(pcx, token, symbols) ==
    IF ~IsLiteral(token) /\ token \in DOMAIN symbols
    THEN Return(symbols[token] - (pcx + 1))
    ELSE resolve_value(token, symbols, TRUE)

\* lw's and sw's third operand: resolve_value with allow_label, so a label
\* gives its absolute address whatever the line's own address pcx
mem_offset(pcx, token, symbols) == resolve_value(token, symbols, TRUE)

\* The body of encode's loop: the word appended for line at index pcx.
encode_line(pcx, line, symbols) ==
    LET op == line.opcode
        args == line.args
    IN
    IF op = T_fill THEN
        LET c == check_argc(line, 1)
        IN  IF ~c.ok THEN c ELSE fill_value(args[1], symbols)
    ELSE IF op \notin DOMAIN OPCODES THEN
        Raise(AsmError(line.lineno, "Unknown opcode", line.raw))
    ELSE IF op \in {T_add, T_nand} THEN
        LET c == check_argc(line, 3)
            r == map_int_reg(args)
        IN  IF ~c.ok THEN c
            ELSE IF ~r.ok THEN r
            ELSE Return(Pack(OPCODES[op], r.val[1], r.val[2], r.val[3]))
    ELSE IF op \in {T_lw, T_sw} THEN
        LET c == check_argc(line, 3)
            r == map_int_reg(SubSeq(args, 1, 2))
            v == mem_offset(pcx, args[3], symbols)
        IN  IF ~c.ok THEN c
            ELSE IF ~r.ok THEN r
            ELSE IF ~v.ok THEN v
            ELSE IF ~InRange16(v.val)
            THEN Raise(AsmError(line.lineno, "offset out of 16-bit range", line.raw))
            ELSE Return(Pack(OPCODES[op], r.val[1], r.val[2], v.val % 65536))
    ELSE IF op = T_beq THEN
        LET c == check_argc(line, 3)
            r == map_int_reg(SubSeq(args, 1, 2))
            v == beq_offset(pcx, args[3], symbols)
        IN  IF ~c.ok THEN c
            ELSE IF ~r.ok THEN r
            ELSE IF ~v.ok THEN v
            ELSE IF ~InRange16(v.val)
            THEN Raise(AsmError(line.lineno, "branch offset out of 16-bit range",
                                line.raw))
            ELSE Return(Pack(OPCODES[op], r.val[1], r.val[2], v.val % 65536))
    ELSE IF op = T_jalr THEN
        LET c == check_argc(line, 2)
            r == map_int_reg(args)
        IN  IF ~c.ok THEN c
            ELSE IF ~r.ok THEN r
            ELSE Return(Pack(OPCODES[op], r.val[1], r.val[2], 0))
    ELSE
        LET c == check_argc(line, 0)
        IN  IF ~c.ok THEN c ELSE Return(Pack(OPCODES[op], 0, 0, 0))

RECURSIVE encode_from(_, _, _, _)
encode_from(lines, symbols, pcx, code) ==
    IF pcx >= Len(lines) THEN Return(code)
    ELSE LET w == encode_line(pcx, lines[pcx + 1], symbols)
         IN  IF w.ok THEN encode_from(lines, symbols, pcx + 1, Append(code, w.val))
             ELSE w

encode(lines, symbols) == encode_from(lines, symbols, 0, <<>>)

\* main() up to the write: parse_lines, build_symbol_table, encode
assemble(text) ==
    LET lines == parse_lines(text)
    IN  IF ~lines.ok THEN lines
        ELSE LET symbols == build_symbol_table(lines.val)
             IN  IF ~symbols.ok THEN symbols
                 ELSE encode(lines.val, symbols.val)

\* ------------------------------------------------------------ words
Zero == <<0, 0>>

\* n & MASK_32 for a Python int n
Mask32(n) == <<(n \div 65536) % 65536, n % 65536>>

RECURSIVE And16(_, _, _)
And16(x, y, n) == IF n = 0 THEN 0
                  ELSE (x % 2) * (y % 2) + 2 * And16(x \div 2, y \div 2, n - 1)

\* (x + y) & MASK_32
AddW(x, y) == LET lo == x[2] + y[2]
              IN  <<(x[1] + y[1] + (lo \div 65536)) % 65536, lo % 65536>>

\* ~(x & y) & MASK_32
NandW(x, y) == <<65535 - And16(x[1], y[1], 16), 65535 - And16(x[2], y[2], 16)>>

sext16(x) == (x % 32768) - ((x \div 32768) % 2) * 32768

\* (w + d) & (MEM_SIZE - 1) for a word w and a Python int d: the high half of w
\* is a multiple of MEM_SIZE and drops out
AddrOf(w, d) == (w[2] + d) % MEM_SIZE

\* s.mem[a]
MemAt(m, a) == IF a \in DOMAIN m THEN m[a] ELSE Zero

MemPut(m, a, w) == [x \in (DOMAIN m) \cup {a} |-> IF x = a THEN w ELSE m[x]]

\* ------------------------------------------------------------ handlers
\* A handler takes the machine s = [mem, reg, pc] and the arguments of step's
\* call HANDLERS[op](s, a, b, imm, dst), in that order, and returns the machine
\* after it with adv, the handler's return value, and raised, TRUE when the
\* handler ended in an exception instead of returning.
Returned(s, adv) == s @@ [adv |-> adv, raised |-> FALSE]

\* "list assignment index out of range": the statement has assigned nothing
IndexError(s) == s @@ [adv |-> FALSE, raised |-> TRUE]

\* def op_add(s, a, b, dst, *_): the fourth argument of the call is imm, so the
\* register written is s.reg[word & 0xFFFF].  s.reg has eight elements; a
\* larger index raises IndexError.
op_add(s, a, b, imm, dst) ==
    IF imm \in DOMAIN s.reg
    THEN Returned([s EXCEPT !.reg[imm] = AddW(s.reg[a], s.reg[b])], TRUE)
    ELSE IndexError(s)

\* def op_nand(s, a, b, dst, *_): as op_add
op_nand(s, a, b, imm, dst) ==
    IF imm \in DOMAIN s.reg
    THEN Returned([s EXCEPT !.reg[imm] = NandW(s.reg[a], s.reg[b])], TRUE)
    ELSE IndexError(s)

op_lw(s, a, b, imm, dst) ==
    Returned([s EXCEPT !.reg[b] = MemAt(s.mem, AddrOf(s.reg[a], sext16(imm)))], TRUE)

\* regA and regB in each other's place
op_sw_swapped(s, a, b, imm, dst) ==
    Returned([s EXCEPT !.mem = MemPut(s.mem, AddrOf(s.reg[b], sext16(imm)), s.reg[a])],
             TRUE)

op_sw(s, a, b, imm, dst) ==
    Returned([s EXCEPT !.mem = MemPut(s.mem, AddrOf(s.reg[a], sext16(imm)), s.reg[b])],
             TRUE)

\* the taken branch also reporting "advance"
op_beq_advanced(s, a, b, imm, dst) ==
    IF s.reg[a] = s.reg[b]
    THEN Returned([s EXCEPT !.pc = (s.pc + 1 + sext16(imm)) % MEM_SIZE], TRUE)
    ELSE Returned(s, TRUE)

op_beq(s, a, b, imm, dst) ==
    IF s.reg[a] = s.reg[b]
    THEN Returned([s EXCEPT !.pc = (s.pc + 1 + sext16(imm)) % MEM_SIZE], FALSE)
    ELSE Returned(s, TRUE)

\* the jump target read before the link is written
op_jalr_target_first(s, a, b, imm, dst) ==
    LET target == s.reg[a][2]
    IN  Returned([s EXCEPT !.reg[b] = Mask32(s.pc + 1), !.pc = target], FALSE)

\* s.reg[b] = (s.pc + 1) & MASK_32, then s.pc = s.reg[a] & (MEM_SIZE - 1)
op_jalr(s, a, b, imm, dst) ==
    LET linked == [s EXCEPT !.reg[b] = Mask32(s.pc + 1)]
    IN  Returned([linked EXCEPT !.pc = linked.reg[a][2]], FALSE)

op_noop(s, a, b, imm, dst) == Returned(s, TRUE)

HANDLERS(op, s, a, b, imm, dst) ==
    CASE op = OP_ADD  -> op_add(s, a, b, imm, dst)
      [] op = OP_NAND -> op_nand(s, a, b, imm, dst)
      [] op = OP_LW   -> op_lw(s, a, b, imm, dst)
      [] op = OP_SW   -> op_sw(s, a, b, imm, dst)
      [] op = OP_BEQ  -> op_beq(s, a, b, imm, dst)
      [] op = OP_JALR -> op_jalr(s, a, b, imm, dst)
      [] op = OP_NOOP -> op_noop(s, a, b, imm, dst)

\* ------------------------------------------------------------ decode
DecOp(w) == (w[1] \div 64) % 8
DecA(w) == (w[1] \div 8) % 8
DecB(w) == w[1] % 8
DecImm(w) == w[2]
DecDst(w) == w[2] % 8

\* the reset left out
ResetR0_skipped(r) == r

\* s.reg[0] = 0
ResetR0(r) == [r EXCEPT ![0] = Zero]

\* s.steps += 1
CountStep(n) == n + 1

\* the comparison turned round
OverLimit_inverted(n) == n < STEP_LIMIT

\* s.steps > STEP_LIMIT
OverLimit(n) == n > STEP_LIMIT

\* the halt counted as executed
op_halt_counted(n) == [executed |-> n + 1, exit |-> 0]

\* op_halt prints s.steps as "instructions executed" and calls sys.exit(0); the
\* exit leaves step() before its own "s.steps += 1"
op_halt(n) == [executed |-> n, exit |-> 0]

\* ------------------------------------------------------------ load
\* words = [int(line) & MASK_32 for line in f]
load_words(f) == [i \in 1..Len(f) |-> Mask32(IntOf(f[i]))]

\* the comparison turned round
TooBig_inverted(n) == n <= MEM_SIZE

\* len(words) > MEM_SIZE: sys.exit("Program too big for memory")
TooBig(n) == n > MEM_SIZE

\* load_mc, as main() calls it on the program file, whatever asemble.py did or
\* did not do before.  open() raises FileNotFoundError when there is no file,
\* reading raises UnicodeDecodeError on bytes that are no UTF-8, and int(line)
\* raises ValueError on a line that is no integer literal; nothing catches
\* them, and the process ends with status 1.
Load ==
    /\ status = "Start"
    /\ IF \/ ~mcfile.present
          \/ ~mcfile.decodable
          \/ \E i \in 1..Len(mcfile.lines) : ~int(mcfile.lines[i]).ok
       THEN /\ status' = "Crashed"
            /\ exitCode' = 1
            /\ UNCHANGED <<mem, reg, pc, steps>>
       ELSE LET ws == load_words(mcfile.lines)
            IN  IF TooBig(Len(ws))
                THEN /\ status' = "Rejected"
                     /\ exitCode' = 1
                     /\ UNCHANGED <<mem, reg, pc, steps>>
                ELSE /\ status' = "Running"
                     /\ mem' = [a \in 0..(Len(ws) - 1) |-> ws[a + 1]]
                     /\ reg' = [r \in 0..7 |-> Zero]
                     /\ pc' = 0
                     /\ steps' = 0
                     /\ UNCHANGED exitCode
    /\ UNCHANGED <<mcfile, reported, asmVars, encVars>>

\* ------------------------------------------------------------ step
\* An exception a handler raises leaves step() and main(): nothing catches it,
\* the interpreter prints the traceback and the process ends with status 1,
\* before the pc advances, register 0 is reset or the step is counted.
Step ==
    /\ status = "Running"
    /\ LET word == MemAt(mem, pc)
           op   == DecOp(word)
           a    == DecA(word)
           b    == DecB(word)
           imm  == DecImm(word)
           dst  == DecDst(word)
       IN  IF op = OP_HALT
           THEN LET h == op_halt(steps)
                IN  /\ status' = "Halted"
                    /\ exitCode' = h.exit
                    /\ reported' = h.executed
                    /\ UNCHANGED <<mem, reg, pc, steps>>
           ELSE LET t   == HANDLERS(op, [mem |-> mem, reg |-> reg, pc |-> pc],
                                     a, b, imm, dst)
                    n   == CountStep(steps)
                IN  IF t.raised
                    THEN /\ status' = "Faulted"
                         /\ exitCode' = 1
                         /\ UNCHANGED <<mem, reg, pc, steps, reported>>
                    ELSE /\ mem' = t.mem
                         /\ reg' = ResetR0(t.reg)
                         /\ pc' = IF t.adv THEN (t.pc + 1) % MEM_SIZE ELSE t.pc
                         /\ steps' = n
                         /\ IF OverLimit(n)
                            THEN status' = "Aborted" /\ exitCode' = 1
                            ELSE UNCHANGED <<status, exitCode>>
                         /\ UNCHANGED reported
    /\ UNCHANGED <<mcfile, asmVars, encVars>>

\* ------------------------------------------------------------ main
NoErr == [exc |-> "", line |-> 0, msg |-> "", text |-> NoText]

\* "\n".join(str(w) for w in words) + "\n", as the lines of the file: no word
\* at all leaves one empty line
FileText(ws) ==
    IF Len(ws) = 0 THEN << <<>> >> ELSE [i \in 1..Len(ws) |-> Str(ws[i])]

\* the output opened for writing before the passes run: a failure leaves it
\* empty
main_output_truncating(r, old) ==
    IF r.ok THEN FileWith(FileText(r.val)) ELSE FileWith(<<>>)

\* The output file after main(): write_text is the statement after encode, so
\* an exception raised by any pass leaves the file as it was
main_output(r, old) ==
    IF r.ok THEN FileWith(FileText(r.val)) ELSE old

\* parser.error(...): the usage and the message on standard error, exit
\* status 2
UsageError ==
    [exc |-> "SystemExit", line |-> 0, msg |-> "Source file does not exist",
     text |-> NoText]

\* read_text on bytes that are no UTF-8
UnicodeDecodeError ==
    [exc |-> "UnicodeDecodeError", line |-> 0, msg |-> "codec can't decode the bytes",
     text |-> NoText]

\* print of a message with the arrow U+2192 in it
UnicodeEncodeError ==
    [exc |-> "UnicodeEncodeError", line |-> 0,
     msg |-> "can't encode character U+2192", text |-> NoText]

\* the encodings that have the arrow of main's message
CanEncodeArrow(enc) == enc = "utf-8"

\* main() and the "__main__" block.  A source file that is not there ends the
\* run in parser.error.  "except AsmError as exc: sys.exit(str(exc))" catches
\* the assembler's own error; every other exception passes it and ends the
\* process with a traceback.  The print is the last statement, after
\* write_text: where standard output cannot encode the message it raises with
\* the file written.
Assemble ==
    /\ asm = "Start"
    /\ IF input = "absent"
       THEN /\ asm' = "Usage"
            /\ asmErr' = UsageError
            /\ UNCHANGED <<words, mcfile>>
       ELSE IF input = "undecodable"
       THEN /\ asm' = "Crashed"
            /\ asmErr' = UnicodeDecodeError
            /\ UNCHANGED <<words, mcfile>>
       ELSE LET r == assemble(src)
            IN  /\ mcfile' = main_output(r, mcfile)
                /\ IF r.ok
                   THEN /\ words' = r.val
                        /\ IF CanEncodeArrow(stdout)
                           THEN asm' = "Done" /\ UNCHANGED asmErr
                           ELSE asm' = "Unreported" /\ asmErr' = UnicodeEncodeError
                   ELSE /\ asm' = IF r.err.exc = "AsmError" THEN "Failed" ELSE "Crashed"
                        /\ asmErr' = r.err
                        /\ UNCHANGED words
    /\ UNCHANGED <<input, src, stdout, simVars, encVars>>

\* ------------------------------------------------------------ encode, one line
NoArgs == [pcx |-> -1]

NoRes == [ok |-> FALSE, err |-> NoErr]

EncodeOne ==
    /\ encArgs # NoArgs
    /\ encRes = NoRes
    /\ encRes' = encode_line(encArgs.pcx, encArgs.line, encArgs.symbols)
    /\ UNCHANGED <<encArgs, mcfile, asmVars, simVars>>

\* ------------------------------------------------------------ inputs
SimStart ==
    /\ status = "Start"
    /\ mem = <<>>
    /\ reg = [r \in 0..7 |-> Zero]
    /\ pc = 0
    /\ steps = 0
    /\ exitCode = -1
    /\ reported = -1

Encodings == {"utf-8", "ascii"}

AsmStart(sources, encodings) ==
    /\ input = "text"
    /\ src \in sources
    /\ stdout \in encodings
    /\ asm = "Start"
    /\ asmErr = NoErr
    /\ words = <<>>
    /\ mcfile = NoFile

\* The assembler run again over the output of an earlier run
AsmRerun(sources, encodings, files) ==
    /\ input = "text"
    /\ src \in sources
    /\ stdout \in encodings
    /\ asm = "Start"
    /\ asmErr = NoErr
    /\ words = <<>>
    /\ mcfile \in files

\* The assembler run where its source is missing or is no text
AsmNoInput(files) ==
    /\ input \in {"absent", "undecodable"}
    /\ src = <<>>
    /\ stdout = "utf-8"
    /\ asm = "Start"
    /\ asmErr = NoErr
    /\ words = <<>>
    /\ mcfile \in files

\* The simulator alone
AsmNone(files) ==
    /\ input = "absent"
    /\ src = <<>>
    /\ stdout = "utf-8"
    /\ asm = "None"
    /\ asmErr = NoErr
    /\ words = <<>>
    /\ mcfile \in files

EncNone == encArgs = NoArgs /\ encRes = NoRes

\* Source vocabulary
L_loop == <<"l", "o", "o", "p">>
L_five == <<"f", "i", "v", "e">>
L_undef == <<"x", "1">>
T_bogus == <<"m", "u", "l">>
Cmt == <<"#", "c">>
R0 == <<"0">>
R1 == <<"1">>
R2 == <<"2">>

MaxLines == 2

OffTokens == {Str(32767), Str(-32768), Str(32768), Str(-32769), Str(-1),
              L_loop, L_five, L_undef}

ILines == {<<op, R0, R1, off>> : op \in {T_lw, T_sw, T_beq}, off \in OffTokens}

RLines == {<<T_add, R0, R0, R1>>, <<T_nand, R1, R2, <<"3">>>>,
           <<T_add, <<"7">>, <<"7">>, <<"7">>, Cmt>>}

OLines == {<<T_halt>>, <<T_noop>>, <<T_jalr, R1, R2>>, <<T_jalr, <<"7">>, R0>>}

FillLines == {<<T_fill, <<"5">>>>, <<T_fill, Str(-1)>>, <<T_fill, L_five>>,
              <<T_fill, L_undef>>}

BadLines == {<<T_add, R1, R2>>, <<T_add, R1, R2, <<"8">>>>, <<T_add, <<"x">>, R2, R1>>,
             <<T_lw, R0, <<"9">>, L_five>>, <<T_jalr, R1>>, <<T_halt, R0>>, <<T_fill>>,
             <<T_bogus, R1, R2, R1>>, <<L_five, T_bogus, R1, R2, R1>>,
             <<L_loop>>, <<L_loop, Cmt>>, <<<<"1", "x">>, R1>>}

LabelledLines == {<<L_loop, T_beq, R0, R0, L_loop>>, <<L_five, T_fill, <<"5">>>>,
                  <<L_five, T_fill, Str(-1)>>, <<L_loop, T_fill, L_loop>>,
                  <<L_five, T_halt>>, <<L_loop, T_add, R0, R0, R1>>,
                  <<L_five, T_lw, R0, R1, L_five>>, <<L_loop, T_noop, Cmt>>}

BlankLines == {<<>>, <<Cmt>>}

RawLines == ILines \cup RLines \cup OLines \cup FillLines \cup BadLines
            \cup LabelledLines \cup BlankLines

\* Lines whose comment starts inside a run of characters, or is a lone '#':
\* "halt#c", "lw 0 1 five#x y",
\* "loop#1 add 0 0 1", "loop#", and "halt #"
HashLines == {<<T_halt \o Cmt>>,
              <<T_lw, R0, R1, L_five \o <<"#", "x">>, <<"y">>>>,
              <<L_loop \o <<"#", "1">>, T_add, R0, R0, R1>>,
              <<L_loop \o <<"#">>>>,
              <<T_halt, <<"#">>>>}

\* Lines with a digit that is not decimal where each kind of operand stands,
\* and "lw 0 1 --5"
SuperLines == {<<T_add, R0, R0, <<"²">>>>,
               <<T_fill, <<"²">>>>,
               <<L_five, T_fill, <<"1", "²">>>>,
               <<T_lw, R0, R1, <<"-", "³">>>>,
               <<T_beq, R0, R0, <<"²">>>>,
               <<T_jalr, <<"¹">>, R1>>,
               <<T_lw, R0, R1, <<"-", "-", "5">>>>}

\* ARABIC-INDIC DIGIT THREE and EIGHT, decimal digits; SUPERSCRIPT FOUR, a
\* digit that is not decimal
D_3 == "U+0663"
D_8 == "U+0668"
D_sup4 == "U+2074"

\* Lines with digits of another script: ".fill 3", ".fill -3", "add 0 0 3",
\* "add 0 0 8", "lw 0 1 13" and "jalr 3 1" in those digits, "add 1 2 4" and
\* "beq 0 0 4" with the superscript, and "lw 0 1 +5", "lw 0 1 5_0"
ScriptLines == {<<T_fill, <<D_3>>>>,
                <<T_fill, <<"-", D_3>>>>,
                <<T_add, R0, R0, <<D_3>>>>,
                <<T_add, R0, R0, <<D_8>>>>,
                <<T_lw, R0, R1, <<"1", D_3>>>>,
                <<T_jalr, <<D_3>>, R1>>,
                <<T_add, R1, R2, <<D_sup4>>>>,
                <<T_beq, R0, R0, <<D_sup4>>>>,
                <<T_lw, R0, R1, <<"+", "5">>>>,
                <<T_lw, R0, R1, <<"5", "_", "0">>>>}

\* n times the character c
RECURSIVE Rep(_, _)
Rep(c, n) == IF n = 0 THEN <<>>
             ELSE LET h == Rep(c, n \div 2)
                  IN  h \o h \o (IF n % 2 = 1 THEN <<c>> ELSE <<>>)

\* the number 5 in MAX_STR_DIGITS digits, and in one digit more
FiveAtLimit == Rep("0", MAX_STR_DIGITS - 1) \o <<"5">>

FiveOverLimit == Rep("0", MAX_STR_DIGITS) \o <<"5">>

\* Lines with a literal at and over the limit of int(): "lw 0 1 5", ".fill 5",
\* "add 0 0 5", "beq 0 0 -5" and "lw 0 1 5a"
LimitLines == {<<T_lw, R0, R1, FiveAtLimit>>,
               <<T_lw, R0, R1, FiveOverLimit>>,
               <<T_fill, FiveOverLimit>>,
               <<T_add, R0, R0, FiveAtLimit>>,
               <<T_add, R0, R0, FiveOverLimit>>,
               <<T_beq, R0, R0, <<"-">> \o FiveOverLimit>>,
               <<T_lw, R0, R1, FiveOverLimit \o <<"a">>>>}

OddLines == HashLines \cup SuperLines \cup ScriptLines \cup LimitLines

Sources == UNION {[1..n -> RawLines] : n \in 0..MaxLines}

\* Machine-code files: every sequence of at most MaxProg instructions of Instrs
\* followed by halt, and programs with branches and jumps
MaxProg == 2

HALT == Pack(OP_HALT, 0, 0, 0)

Instrs == {Pack(OP_ADD, 1, 1, 0), Pack(OP_ADD, 0, 0, 1), Pack(OP_ADD, 1, 1, 1),
           Pack(OP_ADD, 1, 2, 8),
           Pack(OP_NAND, 0, 0, 0), Pack(OP_NAND, 0, 0, 1), Pack(OP_NAND, 1, 1, 2),
           Pack(OP_LW, 0, 0, 2), Pack(OP_LW, 0, 1, 2), Pack(OP_LW, 1, 2, 65535),
           Pack(OP_SW, 0, 1, 9), Pack(OP_SW, 1, 1, 12),
           Pack(OP_BEQ, 0, 0, 0), Pack(OP_BEQ, 0, 1, 0),
           Pack(OP_JALR, 0, 0, 0), Pack(OP_JALR, 1, 1, 0),
           Pack(OP_NOOP, 0, 0, 0)}

StraightPrograms == {p \o <<HALT>> : p \in UNION {[1..n -> Instrs] : n \in 0..MaxProg}}

\* lw 0 1 4 / sw 0 1 2 / noop / noop / .fill halt: the store rewrites address 2
StoreProgram ==
    <<Pack(OP_LW, 0, 1, 4), Pack(OP_SW, 0, 1, 2), Pack(OP_NOOP, 0, 0, 0),
      Pack(OP_NOOP, 0, 0, 0), HALT>>

JumpPrograms ==
    { \* lw 0 1 4 / jalr 1 2 / noop / halt / .fill 3
      <<Pack(OP_LW, 0, 1, 4), Pack(OP_JALR, 1, 2, 0), Pack(OP_NOOP, 0, 0, 0), HALT, 3>>,
      \* beq 0 0 1 / add 0 0 0 / halt
      <<Pack(OP_BEQ, 0, 0, 1), Pack(OP_ADD, 0, 0, 0), HALT>>,
      \* lw 0 1 3 / jalr 1 0 / halt / .fill 2
      <<Pack(OP_LW, 0, 1, 3), Pack(OP_JALR, 1, 0, 0), HALT, 2>>,
      StoreProgram,
      \* a word with its high bits set: -1 is 0xFFFFFFFF, opcode 7
      <<-1, HALT>>,
      \* lw 0 2 5 / sw 0 2 -1 / beq 0 1 -4 / halt / noop / .fill "jalr 1 1":
      \* the store puts "jalr 1 1" at address 65535, the branch goes there
      \* while register 1 is 0, and the jump links 65536 and comes back to 0
      <<Pack(OP_LW, 0, 2, 5), Pack(OP_SW, 0, 2, 65535), Pack(OP_BEQ, 0, 1, 65532),
        HALT, Pack(OP_NOOP, 0, 0, 0), Pack(OP_JALR, 1, 1, 0)>> }

\* add and nand words with a bit set in bits 3..15, which no line of assembly
\* gives: the words 8 and 11, "add 7 7" with every low bit set, "nand 1 1" with
\* bit 4, and a word the program loads and writes before it fetches it
FaultPrograms ==
    { <<8, HALT>>,
      <<Pack(OP_ADD, 0, 0, 1), 11, HALT>>,
      <<Pack(OP_ADD, 7, 7, 65535), HALT>>,
      <<Pack(OP_NAND, 1, 1, 16), HALT>>,
      <<Pack(OP_LW, 0, 1, 3), Pack(OP_SW, 0, 1, 2), HALT, Pack(OP_NAND, 0, 0, 4096)>> }

Programs == StraightPrograms \cup JumpPrograms \cup FaultPrograms

FileOf(p) == [i \in 1..Len(p) |-> Str(p[i])]

\* Files whose lines int() reads otherwise than str() writes them: " 5", "5 ",
\* a tab before the number, a sign, an underscore, the digits of another
\* script, each the word of "add 0 0" with a destination below 8 and followed
\* by halt; and files with a line int() refuses: a blank line, "5 5", a
\* superscript, "5_"
ReadableLines == {<<" ", "5">>, <<"5", " ">>, <<"\t", "5", " ", "U+00A0">>, <<"+", "5">>,
                  <<"0", "_", "7">>, <<D_3>>, <<" ", "+", "0", D_3, "U+2003">>,
                  FiveAtLimit}

UnreadableLines == {<<" ">>, <<"5", " ", "5">>, <<D_sup4>>, <<"5", "_">>, <<"-", " ", "5">>,
                    <<"U+001C", "5">>, FiveOverLimit}

OddFiles == {FileWith(<<l, Str(HALT)>>) : l \in ReadableLines}
            \cup {FileWith(<<Str(HALT), l>>) : l \in UnreadableLines}
            \cup {Undecodable, NoFile}

Files == {FileWith(FileOf(p)) : p \in Programs} \cup OddFiles

\* A file of n words: "beq 0 1 -2" at address 0 branches to address 65535
\* while register 1 is 0, "jalr 1 1" there links 65536 into register 1 and
\* comes back to address 0, and the halt at address 1 ends the run
BoundaryFile(n) ==
    <<Str(Pack(OP_BEQ, 0, 1, 65534)), Str(HALT)>>
        \o [i \in 1..(n - 2) |-> IF i = MEM_SIZE - 2 THEN Str(Pack(OP_JALR, 1, 1, 0))
                                  ELSE <<"0">>]

\* the largest file that fits the memory, and the smallest that does not
BigFiles == {FileWith(BoundaryFile(n)) : n \in {MEM_SIZE, MEM_SIZE + 1}}

\* the output of an earlier run: the one word of "halt"
StaleFile == FileWith(<<Str(HALT)>>)

\* Sources assembled and then run
ScenarioA == <<<<T_add, R0, R0, R1>>, <<T_halt>>>>

ScenarioB == <<<<T_lw, R0, R1, L_five>>, <<T_halt>>, <<L_five, T_fill, <<"5">>>>>>

L_done == <<"d", "o", "n", "e">>
L_neg1 == <<"n", "e", "g", "1">>

\* the example of asemble.py's docstring, counting down from 5
CountDown == <<<<Cmt>>,
               <<T_lw, R0, R1, L_five>>,
               <<T_lw, R0, R2, L_neg1>>,
               <<L_loop, T_add, R1, R2, R1>>,
               <<T_beq, R0, R1, L_done>>,
               <<T_beq, R0, R0, L_loop>>,
               <<>>,
               <<L_done, T_halt>>,
               <<L_five, T_fill, <<"5">>>>,
               <<L_neg1, T_fill, Str(-1)>>>>

BadSource == <<<<T_add, R0, R0, R1>>, <<T_fill, L_five>>, <<L_five, T_halt>>>>

\* no line of code: the output file is one empty line
EmptySource == <<<<Cmt>>>>

ChainSources == {ScenarioA, ScenarioB, CountDown, BadSource, EmptySource}

\* a program that never halts
ScenarioC == <<<<L_loop, T_beq, R0, R0, L_loop>>>>

LongSources == {ScenarioC}

\* a run that fails over the output of an earlier run, which stays as it was
RerunSources == {BadSource}

Init ==
    /\ \/ AsmStart(ChainSources, Encodings)
       \/ AsmRerun(RerunSources, {"utf-8"}, {StaleFile})
       \/ AsmNoInput({NoFile, StaleFile})
       \/ AsmNone(Files)
    /\ SimStart
    /\ EncNone

Next == Assemble \/ Load \/ Step

\* One iteration of encode's loop, at addresses near 0 and near MAX_16 // 2
MaxAddr == 2

HALF == MAX_16 \div 2

EncAddrs == (0..MaxAddr) \cup ((HALF - 1)..(HALF + MaxAddr))

EncLabels == {L_loop, L_five}

\* build_symbol_table gives each label the index of its own line: two labels
\* never share an address
EncSymbols == {f \in UNION {[D -> EncAddrs] : D \in SUBSET EncLabels} :
                  \A x, y \in DOMAIN f : f[x] = f[y] => x = y}

EncLines(pcx) == {parse_line(pcx, raw).val :
                    raw \in {r \in RawLines \cup OddLines :
                                Len(Tokens(r)) > 0 /\ parse_line(pcx, r).ok}}

EncInputs ==
    {in \in UNION {[pcx : {p}, line : EncLines(p), symbols : EncSymbols] : p \in EncAddrs} :
        /\ in.line.label # NoLabel =>
              in.line.label \in DOMAIN in.symbols /\ in.symbols[in.line.label] = in.pcx
        /\ \A l \in DOMAIN in.symbols : in.symbols[l] = in.pcx => in.line.label = l}

EncInit ==
    /\ encArgs \in EncInputs
    /\ encRes = NoRes
    /\ AsmNone({NoFile})
    /\ SimStart

EncNext == EncodeOne

EncSpec == EncInit /\ [][EncNext]_vars

\* The toolchain on programs that end within a few steps
Spec == Init /\ [][Next]_vars

\* The toolchain on those and on programs that run into the step limit
LimitInit ==
    /\ AsmStart(ChainSources \cup LongSources, {"utf-8"}) \/ AsmNone(Files)
    /\ SimStart
    /\ EncNone

LimitSpec == LimitInit /\ [][Next]_vars

\* main()'s "while True: step(state)" never pauses
FairSpec == LimitSpec /\ WF_vars(Step)

\* The toolchain on the short programs and on the files at the memory's bound
LoadInit ==
    /\ AsmStart(ChainSources, {"utf-8"}) \/ AsmNone(Files \cup BigFiles)
    /\ SimStart
    /\ EncNone

LoadSpec == LoadInit /\ [][Next]_vars

L_count == <<"c", "o", "u", "n", "t">>

\* The countdown of the docstring from n, after the lines pre: the halt is
\* fetched after Len(pre) + 3 * n + 1 executed instructions
CountFrom(pre, n) ==
    pre \o <<<<T_lw, R0, R1, L_count>>,
             <<T_lw, R0, R2, L_neg1>>,
             <<L_loop, T_add, R1, R2, R1>>,
             <<T_beq, R0, R1, L_done>>,
             <<T_beq, R0, R0, L_loop>>,
             <<L_done, T_halt>>,
             <<L_count, T_fill, Str(n)>>,
             <<L_neg1, T_fill, Str(-1)>>>>

\* halt is the instruction after exactly STEP_LIMIT others
ExactSource == CountFrom(<<>>, (STEP_LIMIT - 1) \div 3)

\* one instruction more before the halt
OverSource == CountFrom(<<<<T_noop>>>>, (STEP_LIMIT - 1) \div 3)

EdgeSources == {ExactSource, OverSource}

\* The toolchain on the two programs at the step limit
EdgeInit == AsmStart(EdgeSources, {"utf-8"}) /\ SimStart /\ EncNone

EdgeSpec == EdgeInit /\ [][Next]_vars

\* The assembler alone, on every source text of at most MaxLines lines
\* a program with the same label on two lines and other lines between them
DupSource == <<<<L_loop, T_add, R0, R0, R1>>,
               <<T_noop>>,
               <<Cmt>>,
               <<L_five, T_fill, <<"5">>>>,
               <<L_loop, T_halt>>>>

\* two lines encode, the third raises
LateErrorSource == <<<<T_add, R0, R0, R1>>, <<T_noop>>, <<T_lw, R0, R1, Str(32768)>>>>

\* "lw 0 1 five#load" / "halt#done" / "five .fill 5 #c": every '#' ends its line
HashSource == <<<<T_lw, R0, R1, L_five \o <<"#", "l", "o", "a", "d">>>>,
                <<T_halt \o <<"#", "d", "o", "n", "e">>>>,
                <<L_five, T_fill, <<"5">>, Cmt>>>>

\* Sources of one and two lines of OddLines
OddSources == {<<l>> : l \in OddLines}
              \cup {<<<<L_loop, T_noop>>, l>> : l \in OddLines}
              \cup {<<l, <<L_five, T_halt>>>> : l \in OddLines}

LongerSources == ChainSources \cup LongSources
                 \cup {DupSource, LateErrorSource, HashSource} \cup OddSources

AsmInit ==
    /\ \/ AsmStart(Sources \cup LongerSources, {"utf-8"})
       \/ AsmStart(LongerSources, {"ascii"})
       \/ AsmRerun(Sources \cup LongerSources, {"utf-8"}, {StaleFile})
       \/ AsmRerun(LongerSources, {"ascii"}, {StaleFile})
       \/ AsmNoInput({NoFile, StaleFile})
    /\ SimStart
    /\ EncNone

AsmNext == Assemble

AsmSpec == AsmInit /\ [][AsmNext]_vars

\* ------------------------------------------------------------ properties

\* C1: after every executed step register 0 is 0, also when the step's
\* instruction wrote register 0.
C1_RegisterZero == status \in {"Running", "Halted", "Aborted"} => reg[0] = Zero

\* The first step executed nand with destReg = 0, which writes 0xFFFFFFFF.
C1_Witness ==
    /\ steps = 1
    /\ DecOp(MemAt(mem, 0)) = OP_NAND
    /\ DecDst(MemAt(mem, 0)) = 0
    /\ DecA(MemAt(mem, 0)) = 0
    /\ DecB(MemAt(mem, 0)) = 0
    /\ reg[0] = Zero

\* C2: every run that is Running ends, Halted with exit status 0 or Aborted
\* with exit status 1, and nothing follows the end.
C2_Terminates ==
    /\ (status = "Running") ~>
          ((status = "Halted" /\ exitCode = 0) \/ (status = "Aborted" /\ exitCode = 1))
    /\ [][(status = "Halted" \/ status = "Aborted") => UNCHANGED vars]_vars

\* C3: "loop beq 0 0 loop" assembles to beq with offset field 0xFFFF (-1); its
\* run never halts, stays Running at pc 0 through the first 1,000,000 steps,
\* and ends Aborted with exit status 1 on the step that takes the count past
\* the limit.
C3_LoopAborts ==
    src = ScenarioC =>
        /\ asm = "Done" => words = <<Pack(OP_BEQ, 0, 0, 65535)>>
        /\ status # "Halted"
        /\ status = "Running" => pc = 0 /\ steps <= 1000000
        /\ status = "Aborted" => exitCode = 1 /\ steps = 1000001
        /\ (status = "Running" /\ steps = 1000000) => ENABLED Step

C3_Witness == src = ScenarioC /\ status = "Aborted" /\ steps = 1000001 /\ pc = 0

\* The loaded words are instructions of Instrs followed by halt
IsStraight(ws) ==
    /\ Len(ws) >= 1
    /\ ws[Len(ws)] = Mask32(HALT)
    /\ \A i \in 1..(Len(ws) - 1) : ws[i] \in {Mask32(x) : x \in Instrs}

\* C4: at halt the reported count is the number of instructions executed before
\* the halt, and exit status 0 comes from halt alone.
C4_HaltCount ==
    /\ status = "Halted" =>
          /\ exitCode = 0
          /\ reported = steps
          /\ DecOp(MemAt(mem, pc)) = OP_HALT
    /\ exitCode = 0 => status = "Halted"
    /\ status # "Halted" => reported = -1
    /\ (status = "Halted" /\ src = ScenarioA) => reported = 1
    /\ (status = "Halted" /\ IsStraight(load_words(mcfile.lines))) =>
          reported = Len(mcfile.lines) - 1

C4_Witness == src = ScenarioA /\ status = "Halted" /\ reported = 1 /\ exitCode = 0

\* The run wrote its output: every pass succeeded
Assembled == asm \in {"Done", "Unreported"}

\* The parsed lines and the symbol table of the source, once it assembled that far
Parsed == parse_lines(src)

Symbols == build_symbol_table(Parsed.val)

RegTokens == {Str(i) : i \in 0..7}

\* Line k is ".fill label" with the label defined in the program
IsFillLabel(k) ==
    LET l == Parsed.val[k]
    IN  /\ l.opcode = T_fill
        /\ Len(l.args) = 1
        /\ ~IsLiteral(l.args[1])
        /\ l.args[1] \in DOMAIN Symbols.val

\* C5: a .fill whose operand is a label defined anywhere in the program emits
\* the label's address: a program whose other lines all encode assembles, with
\* that address as the word of each such line.
C5_FillLabel ==
    (asm \notin {"None", "Start"} /\ input = "text" /\ Parsed.ok /\ Symbols.ok) =>
        LET fills == {k \in 1..Len(Parsed.val) : IsFillLabel(k)}
        IN  (/\ fills # {}
             /\ \A k \in (1..Len(Parsed.val)) \ fills :
                   encode_line(k - 1, Parsed.val[k], Symbols.val).ok)
            => /\ Assembled
               /\ \A k \in fills : words[k] = Symbols.val[Parsed.val[k].args[1]]

\* C6: every word encode returns lies in [0, 2^32 - 1].
C6_Words32 ==
    Assembled =>
        \A i \in 1..Len(words) : words[i] >= 0 /\ (words[i] \div 65536) <= 65535

\* C7: every assembler error reports the 1-based number of the offending source
\* line and that line's text.
C7_ErrorLine ==
    asm = "Failed" =>
        /\ asmErr.line \in 1..Len(src)
        /\ asmErr.text = src[asmErr.line]

\* C8: a beq at address p whose third operand is a label at address t is
\* accepted exactly when t - (p + 1) is in [-32768, 32767], and its offset
\* field is then (t - (p + 1)) mod 2^16.
C8_BeqLabelOffset ==
    LET l == encArgs.line
    IN  (/\ encRes # NoRes
         /\ l.opcode = T_beq
         /\ Len(l.args) = 3
         /\ l.args[1] \in RegTokens
         /\ l.args[2] \in RegTokens
         /\ l.args[3] \in DOMAIN encArgs.symbols)
        => LET d == encArgs.symbols[l.args[3]] - (encArgs.pcx + 1)
           IN  /\ encRes.ok <=> (-32768 <= d /\ d <= 32767)
               /\ encRes.ok => /\ encRes.val % 65536 = d % 65536
                               /\ sext16(DecImm(Mask32(encRes.val))) = d

\* A backward branch at the lower boundary: p = 32767, t = 0.
C8_Witness ==
    /\ encRes # NoRes
    /\ encRes.ok
    /\ encArgs.line.opcode = T_beq
    /\ encArgs.line.args[3] = L_loop
    /\ L_loop \in DOMAIN encArgs.symbols
    /\ encArgs.symbols[L_loop] = 0
    /\ encArgs.pcx = 32767
    /\ encRes.val % 65536 = 32768

\* The offset a line of lw, sw or beq resolves to
UsedOffset(pcx, l, symbols) ==
    IF IsLiteral(l.args[3]) THEN IntOf(l.args[3])
    ELSE IF l.opcode = T_beq THEN symbols[l.args[3]] - (pcx + 1)
    ELSE symbols[l.args[3]]

\* C9: the simulator's field extraction, applied to the word it loads from the
\* assembler's output, gives back the opcode, the registers and the signed
\* offset the line was encoded from.
C9_RoundTrip ==
    Assembled =>
        \A k \in 1..Len(Parsed.val) :
            LET l == Parsed.val[k]
                w == load_words(mcfile.lines)[k]
            IN  l.opcode \in DOMAIN OPCODES =>
                  /\ DecOp(w) = OPCODES[l.opcode]
                  /\ l.opcode \in {T_add, T_nand, T_lw, T_sw, T_beq, T_jalr} =>
                        DecA(w) = IntOf(l.args[1]) /\ DecB(w) = IntOf(l.args[2])
                  /\ l.opcode \in {T_add, T_nand} => DecDst(w) = IntOf(l.args[3])
                  /\ l.opcode \in {T_lw, T_sw, T_beq} =>
                        sext16(DecImm(w)) = UsedOffset(k - 1, l, Symbols.val)

C9_Witness ==
    /\ asm = "Done"
    /\ src = <<<<T_lw, R0, R1, Str(-32768)>>, <<T_nand, R1, R2, <<"3">>>>>>
    /\ DecA(load_words(mcfile.lines)[2]) = 1
    /\ DecB(load_words(mcfile.lines)[2]) = 2
    /\ DecDst(load_words(mcfile.lines)[2]) = 3
    /\ DecImm(load_words(mcfile.lines)[1]) = 32768

\* C10: lw, sw and beq accept the resolved offset exactly when it is in
\* [-32768, 32767]; outside it the line raises the range error and appends no
\* word.
C10_OffsetRange ==
    LET l == encArgs.line
    IN  (/\ encRes # NoRes
         /\ l.opcode \in {T_lw, T_sw, T_beq}
         /\ Len(l.args) = 3
         /\ l.args[1] \in RegTokens
         /\ l.args[2] \in RegTokens
         /\ \/ IsLiteral(l.args[3]) /\ IsIntLiteral(l.args[3])
            \/ l.args[3] \in DOMAIN encArgs.symbols)
        => LET v == UsedOffset(encArgs.pcx, l, encArgs.symbols)
           IN  /\ encRes.ok <=> (-32768 <= v /\ v <= 32767)
               /\ ~encRes.ok =>
                     /\ encRes.err.msg \in {"offset out of 16-bit range",
                                            "branch offset out of 16-bit range"}
                     /\ encRes.err.line = encArgs.line.lineno + 1

\* The literal 32768 is rejected.
C10_Witness ==
    /\ encRes # NoRes
    /\ ~encRes.ok
    /\ encArgs.line.opcode = T_lw
    /\ encArgs.line.args = <<R0, R1, Str(32768)>>
    /\ encRes.err.msg = "offset out of 16-bit range"

\* C11: the output file is written only after parsing, the symbol table and
\* encoding all succeeded, and then holds every word; when any line raises, at
\* whatever position and whatever it raises, the file is left exactly as it
\* was: nothing is written.
C11_WriteAfterSuccess ==
    [][/\ asm' \in {"Failed", "Crashed", "Usage"} => mcfile' = mcfile /\ words' = <<>>
       /\ asm' \in {"Done", "Unreported"} =>
             /\ parse_lines(src).ok
             /\ build_symbol_table(parse_lines(src).val).ok
             /\ encode(parse_lines(src).val, build_symbol_table(parse_lines(src).val).val).ok
             /\ mcfile'.present
             /\ Len(words') = Len(parse_lines(src).val)
             /\ Len(words') > 0 =>
                   load_words(mcfile'.lines) = [i \in 1..Len(words') |-> Mask32(words'[i])]
      ]_vars

\* The third line raised after two lines had encoded; the earlier output still
\* holds its one word.
C11_Witness ==
    /\ src = LateErrorSource
    /\ asm = "Failed"
    /\ asmErr.line = 3
    /\ encode_line(0, parse_lines(src).val[1], NoSymbols).ok
    /\ encode_line(1, parse_lines(src).val[2], NoSymbols).ok
    /\ mcfile = StaleFile

\* A source line that is blank or holds a comment only: nothing stands before
\* its first '#'
IsBlankLine(raw) == Len(raw) = 0 \/ raw[1][1] = "#"

\* The first word of a line that is not blank: its first run of characters, up
\* to the comment when the comment starts inside it
FirstWord(raw) ==
    LET t == raw[1]
        hashes == {j \in 1..Len(t) : t[j] = "#"}
    IN  SubSeq(t, 1, (CHOOSE j \in hashes \cup {Len(t) + 1} :
                        \A k \in hashes : j <= k) - 1)

\* A source line that defines a label: its first word has the shape of a label
\* and is no opcode and not .fill
DefinesLabel(raw) ==
    /\ ~IsBlankLine(raw)
    /\ LABEL_RE(FirstWord(raw))
    /\ FirstWord(raw) \notin DOMAIN OPCODES
    /\ FirstWord(raw) # T_fill

\* The number of instruction and .fill lines among the first n source lines
CodeLinesBefore(n) == Cardinality({j \in 1..n : ~IsBlankLine(src[j])})

\* C12: in a program that assembles, a label's address is the 0-based index of
\* its line among the emitted words: blank and comment-only lines do not count,
\* every instruction or .fill line counts one, and there are as many words as
\* such lines.  A comment that starts inside a word ends the line like any
\* other: "lw 0 1 five#load / halt#done / five .fill 5 #c" assembles to three
\* words, with "five" at address 2.
C12_LabelAddress ==
    /\ Assembled =>
          /\ Len(words) = CodeLinesBefore(Len(src))
          /\ Len(words) = Len(Parsed.val)
          /\ DOMAIN Symbols.val =
                {FirstWord(src[i]) : i \in {j \in 1..Len(src) : DefinesLabel(src[j])}}
          /\ \A i \in 1..Len(src) :
                DefinesLabel(src[i]) =>
                   LET at == Symbols.val[FirstWord(src[i])]
                       w  == encode_line(at, Parsed.val[at + 1], Symbols.val)
                   IN  /\ at = CodeLinesBefore(i - 1)
                       /\ Parsed.val[at + 1].raw = src[i]
                       /\ w.ok
                       /\ words[at + 1] = w.val
    /\ (src = HashSource /\ asm # "Start") =>
          Assembled /\ words = <<Pack(OP_LW, 0, 1, 2), HALT, 5>>

\* The docstring's example: ten source lines, two of them blank or comment,
\* eight words; "loop" on the fourth source line has address 2.
C12_Witness ==
    /\ src = CountDown
    /\ asm = "Done"
    /\ Len(words) = 8
    /\ Symbols.val[L_loop] = 2
    /\ Symbols.val[L_done] = 5
    /\ Symbols.val[L_neg1] = 7

\* The source lines that define a label an earlier line defined already
Redefinitions ==
    {j \in 1..Len(src) :
        /\ DefinesLabel(src[j])
        /\ \E i \in 1..(j - 1) :
              DefinesLabel(src[i]) /\ FirstWord(src[i]) = FirstWord(src[j])}

\* C13: a program that defines the same label on two lines is rejected,
\* wherever the two lines are and whatever lies between them: once every line
\* parsed, the first redefinition raises "Duplicate label", and no run ends
\* with a symbol table in which the later definition replaced the earlier.
C13_DuplicateLabel ==
    (asm \notin {"None", "Start"} /\ Redefinitions # {}) =>
        /\ asm = "Failed"
        /\ words = <<>>
        /\ Parsed.ok =>
              /\ ~Symbols.ok
              /\ asmErr.msg = "Duplicate label"
              /\ asmErr.line \in Redefinitions
              /\ \A j \in Redefinitions : asmErr.line <= j
              /\ asmErr.text = src[asmErr.line]

\* "loop" on the first and on the fifth line, with an instruction, a comment
\* and another label between them.
C13_Witness ==
    /\ src = DupSource
    /\ asm = "Failed"
    /\ asmErr.msg = "Duplicate label"
    /\ asmErr.line = 5
    /\ Redefinitions = {5}

\* C14: a machine-code file of more than 65536 words is rejected at load with
\* failure status before any instruction executes; a file of at most 65536
\* words loads, its words at addresses 0..N-1 and zeros above.
C14_LoadBound ==
    (status \notin {"Start", "Crashed"} /\ mcfile.present) =>
        LET n == Len(mcfile.lines)
        IN  /\ n > 65536 =>
                  /\ status = "Rejected"
                  /\ exitCode = 1
                  /\ steps = 0
                  /\ reported = -1
                  /\ ~ENABLED Step
            /\ n <= 65536 =>
                  /\ status # "Rejected"
                  /\ (status = "Running" /\ steps = 0) =>
                        /\ pc = 0
                        /\ \A r \in 0..7 : reg[r] = Zero
                        /\ \A a \in 0..(n - 1) :
                              MemAt(mem, a) = Mask32(IntOf(mcfile.lines[a + 1]))
                        /\ \A a \in n..65535 : MemAt(mem, a) = Zero

\* The file of 65537 words was refused.
C14_Witness ==
    /\ Len(mcfile.lines) = 65537
    /\ status = "Rejected"
    /\ exitCode = 1
    /\ steps = 0

\* C15: lw and sw with a label as third operand encode the label's absolute
\* address in the offset field; "lw 0 1 five / halt / five .fill 5" assembles
\* to lw with offset 2, and one executed step leaves 5 in register 1.
C15_LoadLabel ==
    /\ Assembled =>
          \A k \in 1..Len(Parsed.val) :
              LET l == Parsed.val[k]
              IN  (/\ l.opcode \in {T_lw, T_sw}
                   /\ ~IsLiteral(l.args[3])) =>
                      /\ l.args[3] \in DOMAIN Symbols.val
                      /\ words[k] % 65536 = Symbols.val[l.args[3]]
                      /\ \E i \in 1..Len(src) :
                            /\ DefinesLabel(src[i])
                            /\ FirstWord(src[i]) = l.args[3]
                            /\ words[k] % 65536 = CodeLinesBefore(i - 1)
    /\ src = ScenarioB =>
          /\ asm = "Done" => words = <<Pack(OP_LW, 0, 1, 2), HALT, 5>>
          /\ (status \in {"Running", "Halted"} /\ steps = 0) => reg[1] = Zero
          /\ (status \in {"Running", "Halted"} /\ steps = 1) =>
                reg[1] = <<0, 5>> /\ pc = 1

\* One step of the example has run.
C15_Witness ==
    /\ src = ScenarioB
    /\ status = "Running"
    /\ steps = 1
    /\ reg[1] = <<0, 5>>
    /\ DecImm(MemAt(mem, 0)) = 2

\* C16 as stated: with regA = regB the new pc is p + 1, whatever p is.  At
\* p = 65535 it is not: pc is 0 there.
C16_Original ==
    [][LET w == MemAt(mem, pc)
       IN  (status = "Running" /\ DecOp(w) = OP_JALR /\ DecA(w) = DecB(w)) =>
              pc' = pc + 1
      ]_vars

\* C16: jalr at address p writes p + 1 into register regB and only then takes
\* pc from register regA mod 65536: with regA # regB the new pc is the old
\* register regA mod 65536, with regA = regB (also both 0) it is the link
\* p + 1 mod 65536, which is 0 at p = 65535 while the register keeps 65536,
\* and pc is not advanced again; with regB = 0 the link is gone at the end of
\* the step.  Nothing else changes.
C16_Jalr ==
    [][LET w == MemAt(mem, pc)
           a == DecA(w)
           b == DecB(w)
       IN  (status = "Running" /\ DecOp(w) = OP_JALR) =>
              /\ pc' = IF a = b THEN (pc + 1) % 65536 ELSE reg[a][2]
              /\ \A r \in 0..7 :
                    reg'[r] = IF r = 0 THEN Zero
                              ELSE IF r = b THEN <<(pc + 1) \div 65536, (pc + 1) % 65536>>
                              ELSE reg[r]
              /\ mem' = mem
              /\ steps' = steps + 1
      ]_vars

\* "jalr 1 1" at address 65535 has run: register 1 holds the link 65536 and
\* pc is 0, the link mod 65536.  The program's store put the jump there and
\* its branch went to it.
C16_Witness ==
    /\ status = "Running"
    /\ steps = 4
    /\ DecOp(MemAt(mem, 65535)) = OP_JALR
    /\ DecA(MemAt(mem, 65535)) = 1
    /\ DecB(MemAt(mem, 65535)) = 1
    /\ reg[1] = <<1, 0>>
    /\ pc = 0

\* A 32-bit word: two halves of 16 bits
IsWord(w) == Len(w) = 2 /\ w[1] \in 0..65535 /\ w[2] \in 0..65535

\* C17: in every state of a loaded program pc is in [0, 65535] and every
\* register and memory word is in [0, 2^32 - 1]; so the fetch, the effective
\* address of lw and sw and the dispatch on the opcode are defined, a running
\* machine can always take its step, and a step ends Running, Halted or
\* Aborted and nowhere else.
C17_NoFault ==
    /\ [](status \in {"Running", "Halted", "Aborted"} =>
            /\ pc \in 0..65535
            /\ \A r \in 0..7 : IsWord(reg[r])
            /\ DOMAIN reg = 0..7
            /\ \A a \in DOMAIN mem : a \in 0..65535 /\ IsWord(mem[a])
            /\ status = "Running" =>
                  LET w == MemAt(mem, pc)
                  IN  /\ IsWord(w)
                      /\ DecOp(w) \in {OP_ADD, OP_NAND, OP_LW, OP_SW, OP_BEQ, OP_JALR,
                                        OP_HALT, OP_NOOP}
                      /\ DecOp(w) \in {OP_LW, OP_SW} =>
                            AddrOf(reg[DecA(w)], sext16(DecImm(w))) \in 0..65535
                      /\ ENABLED Step)
    /\ [][status = "Running" => status' \in {"Running", "Halted", "Aborted"}]_vars

\* C18: the step limit is tested only after an instruction other than halt
\* has completed, against the count after the increment: a halt fetched at
\* step count exactly 1,000,000 ends Halted with status 0 and reports
\* 1,000,000, and a run is Aborted only with a count above 1,000,000.
C18_HaltAtLimit ==
    /\ status = "Running" => steps <= 1000000
    /\ status = "Aborted" => steps = 1000001 /\ exitCode = 1 /\ reported = -1
    /\ status = "Halted" => steps <= 1000000 /\ reported = steps /\ exitCode = 0
    /\ (status = "Running" /\ steps = 1000000) => ENABLED Step
    /\ (status = "Running" /\ steps = 1000000 /\ DecOp(MemAt(mem, pc)) = OP_HALT) =>
          src = ExactSource
    /\ src = ExactSource =>
          /\ status # "Aborted"
          /\ status = "Halted" => reported = 1000000 /\ reg[1] = Zero
    /\ src = OverSource =>
          /\ status # "Halted"
          /\ status = "Aborted" => DecOp(MemAt(mem, pc)) = OP_HALT /\ reg[1] = Zero

\* The halt fetched at step count 1,000,000 has ended the run.
C18_Witness ==
    /\ src = ExactSource
    /\ status = "Halted"
    /\ steps = 1000000
    /\ reported = 1000000
    /\ exitCode = 0

\* C19: a step changes memory only when its opcode is sw, and then at most
\* the one cell at (reg[regA] + sext16(offset)) mod 65536, which takes
\* reg[regB]; every other opcode leaves memory as it was.  The fetch reads the
\* memory as it is now: a store to an address executed later changes the
\* instruction executed there.
C19_MemoryFrame ==
    /\ [][LET w == MemAt(mem, pc)
              addr == (reg[DecA(w)][2] + sext16(DecImm(w))) % 65536
          IN  status = "Running" =>
                 /\ DecOp(w) # OP_SW => mem' = mem
                 /\ DecOp(w) = OP_SW =>
                       /\ MemAt(mem', addr) = reg[DecB(w)]
                       /\ \A x \in (DOMAIN mem \cup DOMAIN mem') \ {addr} :
                             MemAt(mem', x) = MemAt(mem, x)
         ]_vars
    /\ [](mcfile = FileWith(FileOf(StoreProgram)) =>
            /\ (status = "Running" /\ steps >= 2) => MemAt(mem, 2) = Mask32(HALT)
            /\ status = "Halted" => pc = 2 /\ reported = 2)

\* The halt that "sw 0 1 2" stored over the noop at address 2 has ended the run.
C19_Witness ==
    /\ mcfile = FileWith(FileOf(StoreProgram))
    /\ status = "Halted"
    /\ pc = 2
    /\ reported = 2
    /\ MemAt(mem, 2) = Mask32(HALT)
    /\ load_words(mcfile.lines)[3] = Mask32(Pack(OP_NOOP, 0, 0, 0))

====
